---------------------------- MODULE Spec2Model ----------------------------
(***************************************************************************)
(* A model of RateLimiter (src/ratelimiter.cc, src/ratelimiter.h): the     *)
(* pacing scheduler shared by several threads, its time arithmetic, the    *)
(* reliable-send wrapper and the file-to-socket pump.                      *)
(*                                                                         *)
(* Representation.                                                         *)
(*  - A struct timespec is a record [tv_sec, tv_nsec].                     *)
(*  - A double holding seconds (duration, sendextra_, recvextra_) is a     *)
(*    fixed-point integer counting 1/DurPerSec of a second.  Every value   *)
(*    the model produces is a multiple of that unit, so the arithmetic of  *)
(*    the code is exact here; floating-point rounding is not modelled.     *)
(*  - A size_t or ssize_t value is the integer its bit pattern denotes as  *)
(*    a signed number (so -1 stays -1); the comparisons the code makes on  *)
(*    the unsigned type are modelled as the unsigned comparison.           *)
(*  - The clock is a tick counter; clock_gettime returns Now.              *)
(***************************************************************************)
EXTENDS Integers, Sequences, FiniteSets, TLC

(***************************************************************************)
(* Bounds of the model                                                     *)
(***************************************************************************)
\* ticks of the clock per second
TicksPerSec == 2
\* the clock stops advancing after this many ticks
MaxClock == 5
\* calls a thread makes
MaxCalls == 1
\* answers other than "all of it" that a faulty channel or file gives in a run
MaxFaults == 1

Threads == {"t1", "t2"}

(***************************************************************************)
(* Program constants                                                       *)
(***************************************************************************)
\* int nmax = 1000000000 (time_add, time_diff, time_diff2)
nmax == 1000000000
\* resolution of a double holding seconds: microseconds
DurPerSec == 1000000
\* maxburst_ = 10000 of the constructors without a burst argument
DefaultBurst == 10000
\* read(fd,buf,1024) of sendfile
FileBlock == 1024

NsPerDur == nmax \div DurPerSec
TickNs == nmax \div TicksPerSec
TickDur == DurPerSec \div TicksPerSec

Min(a, b) == IF a < b THEN a ELSE b
Max(a, b) == IF a > b THEN a ELSE b

(***************************************************************************)
(* Time arithmetic                                                         *)
(***************************************************************************)
TS(s, n) == [tv_sec |-> s, tv_nsec |-> n]

\* trunc(duration): the whole seconds of a double, rounded toward zero
Trunc(d) == IF d >= 0 THEN d \div DurPerSec ELSE 0 - ((0 - d) \div DurPerSec)

time_less(t1, t2) ==
    \/ t1.tv_sec < t2.tv_sec
    \/ (t1.tv_sec = t2.tv_sec /\ t1.tv_nsec < t2.tv_nsec)

time_set(t1, t2) == TS(t2.tv_sec, t2.tv_nsec)

time_add_nocarry(t1, duration) ==
    TS(t1.tv_sec + Trunc(duration),
       t1.tv_nsec + (duration - Trunc(duration) * DurPerSec) * NsPerDur)

time_add(t1, duration) ==
    LET sec  == t1.tv_sec + Trunc(duration)
        nsec == t1.tv_nsec + (duration - Trunc(duration) * DurPerSec) * NsPerDur
    IN  IF nsec >= nmax
        THEN TS(sec + (nsec \div nmax), nsec % nmax)
        ELSE TS(sec, nsec)

time_diff(t1, t2) ==
    LET sec  == t1.tv_sec - t2.tv_sec
        nsec == t1.tv_nsec - t2.tv_nsec
    IN  IF nsec < 0 THEN TS(sec - 1, nsec + nmax) ELSE TS(sec, nsec)

time_diff2(t1, t2) ==
    LET sec  == t1.tv_sec - t2.tv_sec
        nsec == t1.tv_nsec - t2.tv_nsec
    IN  IF nsec < 0
        THEN (sec - 1) * DurPerSec + ((nmax + nsec) \div NsPerDur)
        ELSE sec * DurPerSec + (nsec \div NsPerDur)

(***************************************************************************)
(* State                                                                   *)
(***************************************************************************)
VARIABLES
    rate_,       \* int rate_: bits per second, 0 = unlimited
    maxburst_,   \* int maxburst_: bytes
    send_,       \* struct timespec send_: next eligible send time
    recv_,       \* struct timespec recv_: next eligible receive time
    sendextra_,  \* double sendextra_: send credit
    recvextra_,  \* double recvextra_: receive credit
    mutex_,      \* pthread_mutex_t mutex_: "free" or the owning thread
    clock,       \* CLOCK_REALTIME, in ticks since construction
    th,          \* per thread: the position and the locals of its call
    world,       \* the environment of the run: who calls what on which channel
    h            \* history of the run (observed, never read by the program)

vars == <<rate_, maxburst_, send_, recv_, sendextra_, recvextra_, mutex_,
          clock, th, world, h>>

sched == <<send_, recv_, sendextra_, recvextra_>>
config == <<rate_, maxburst_, world>>

\* clock_gettime(CLOCK_REALTIME, &t) at clock tick c
TimeAt(c) == TS(c \div TicksPerSec, (c % TicksPerSec) * TickNs)
Now == TimeAt(clock)
(***************************************************************************)
(* Values left by reads of memory the constructors never wrote             *)
(***************************************************************************)
\* What the object's storage held before construction: the members that no
\* constructor assigns (sendextra_, recvextra_, and recv_ in
\* RateLimiter(int,int)) keep it.  Zeroed storage, and two dirty ones.
Zeroed == [sendextra_ |-> 0, recvextra_ |-> 0, recv_ |-> TS(0, 0)]

Storage ==
    {Zeroed,
     [sendextra_ |-> DurPerSec \div 2, recvextra_ |-> 0 - DurPerSec,
      recv_ |-> TS(1, nmax)],
     [sendextra_ |-> 0 - DurPerSec, recvextra_ |-> DurPerSec \div 2,
      recv_ |-> TS(0, 0 - 1)]}

(***************************************************************************)
(* Inputs and environments                                                 *)
(***************************************************************************)
\* rates in kbit/s given to the constructors
Kbps == {0, 8}
\* maximum burst sizes given to RateLimiter(int,int)
Bursts == {0, 500, 1000}
\* a partial acceptance or delivery of a primitive moves this many bytes
Partial == 250

\* Several threads share a limiter built in zeroed storage, each on a channel
\* that accepts every ::send and fills every ::recv in full.
Shared ==
    [live |-> Threads, storage |-> {Zeroed}, faults |-> 0, lens |-> {2000},
     counts |-> {}, avails |-> {}]

\* One thread uses a limiter built in any storage, on a channel and a file
\* that may answer anything, MaxFaults times.
Single ==
    [live |-> {"t1"}, storage |-> Storage, faults |-> MaxFaults,
     lens |-> {750, 1000}, counts |-> {1500}, avails |-> {1200, 1500, 2500}]

(***************************************************************************)
(* Thread-local state of a call                                            *)
(***************************************************************************)
Zero == TS(0, 0)

Locals0 ==
    [pc |-> "idle", op |-> "none", calls |-> 0,
     len |-> 0, total |-> 0, size |-> 0, duration |-> 0,
     now |-> Zero, my |-> Zero, wake |-> Zero, t1 |-> Zero, t2 |-> Zero,
     result |-> 0, nleft |-> 0, ret |-> 0,
     count |-> 0, flen |-> 0, rnum |-> 0, src |-> 0]

\* what one call did, as seen from outside
Call0 ==
    [op |-> "none", arg |-> 0, prims |-> 0, plen |-> 0, pres |-> 0, acc |-> 0, handed |-> 0,
     fatal |-> FALSE, short |-> FALSE, slept |-> FALSE, locked |-> FALSE,
     avail |-> 0, passed |-> 0, rfail |-> FALSE, rerr |-> "none",
     over |-> FALSE]

Hist0 ==
    [credit0 |-> <<sendextra_, recvextra_>>,
     sched0 |-> sched,
     started |-> FALSE,
     first |-> Zero,
     begun |-> 0,
     faults |-> 0,
     solo |-> TRUE,
     maxXfer |-> 0,
     within |-> TRUE,
     exact |-> TRUE,
     call |-> [t \in Threads |-> Call0]]

(***************************************************************************)
(* Construction                                                            *)
(***************************************************************************)
\* RateLimiter::RateLimiter()
Ctor0(mem) ==
    /\ rate_ = 0
    /\ maxburst_ = DefaultBurst
    /\ send_ = TimeAt(0)
    /\ recv_ = TimeAt(0)
    /\ sendextra_ = mem.sendextra_
    /\ recvextra_ = mem.recvextra_
    /\ mutex_ = "free"

\* RateLimiter::RateLimiter(int r)
Ctor1(mem, r) ==
    /\ rate_ = r * 1000
    /\ maxburst_ = DefaultBurst
    /\ send_ = TimeAt(0)
    /\ recv_ = TimeAt(0)
    /\ sendextra_ = mem.sendextra_
    /\ recvextra_ = mem.recvextra_
    /\ mutex_ = "free"

\* RateLimiter::RateLimiter(int r, int maxburst)
Ctor2(mem, r, maxburst) ==
    /\ rate_ = r * 1000
    /\ maxburst_ = maxburst
    /\ send_ = TimeAt(0)
    /\ recv_ = mem.recv_
    /\ sendextra_ = mem.sendextra_
    /\ recvextra_ = mem.recvextra_
    /\ mutex_ = "free"

Init ==
    /\ clock = 0
    /\ world \in {Shared, Single}
    /\ \E mem \in world.storage :
          \/ Ctor0(mem)
          \/ \E r \in Kbps : Ctor1(mem, r)
          \/ \E r \in Kbps, m \in Bursts : Ctor2(mem, r, m)
    /\ th = [t \in Threads |-> Locals0]
    /\ h = Hist0

(***************************************************************************)
(* Helpers of the actions                                                  *)
(***************************************************************************)
\* a history counter of events: 0, 1, or 2 for "more than one"
Count(n) == IF n < 2 THEN n + 1 ELSE n

Set(t, r) == th' = [th EXCEPT ![t] = r]
HCall(t, c) == [h EXCEPT !.call[t] = c]

\* (x < 0) for x of type size_t: an unsigned value is never below zero
size_t_lt0(x) == FALSE

\* (a > b) for a, b of type size_t, where a negative number stands for the
\* bit pattern of that number, a value above every non-negative one
size_t_gt(a, b) ==
    IF a < 0 THEN (b >= 0 \/ a > b) ELSE (b >= 0 /\ a > b)

\* lines 66-69 of send, 140-143 of recv: the size of a chunk
ChunkSize_whole(total) == total

ChunkSize(total) == IF size_t_gt(total, maxburst_) THEN maxburst_ ELSE total

\* (double)(size * 8) / rate_, in units of 1/DurPerSec second
Duration(size) == (size * 8 * (DurPerSec \div 1000)) \div (rate_ \div 1000)

\* lines 85-91, 167-173: the credit draw-down; <<duration, extra>> afterwards
DrawDown_nocredit(duration, extra) == <<duration, extra>>

DrawDown_keep(duration, extra) ==
    IF duration >= extra
    THEN <<duration - extra, 0>>
    ELSE <<0, extra>>

DrawDown(duration, extra) ==
    IF duration >= extra
    THEN <<duration - extra, 0>>
    ELSE <<0, extra - duration>>

\* lines 94-98, 176-180: <<the schedule's next time, the caller's wait>>
Reserve_nowait(next, now, duration) ==
    IF time_less(next, now)
    THEN <<time_add(time_set(next, now), duration), Zero>>
    ELSE <<time_add(next, duration), Zero>>

Reserve_reset(next, now, duration) ==
    <<time_add(time_set(next, now), duration), Zero>>

Reserve(next, now, duration) ==
    IF time_less(next, now)
    THEN <<time_add(time_set(next, now), duration), Zero>>
    ELSE <<time_add(next, duration), time_diff(next, now)>>

\* pthread_mutex_unlock(&mutex_) by thread t, lines 101 and 183
Unlock_never(t) == mutex_

Unlock(t) == "free"

\* nanosleep(&req, NULL) called now: the earliest time it returns.  A request
\* with tv_sec < 0 or tv_nsec outside [0, nmax) fails with EINVAL at once.
ValidSleep(req) == req.tv_sec >= 0 /\ req.tv_nsec >= 0 /\ req.tv_nsec < nmax

WakeTime(req) ==
    IF ValidSleep(req)
    THEN LET n == Now.tv_nsec + req.tv_nsec
         IN  TS(Now.tv_sec + req.tv_sec + (n \div nmax), n % nmax)
    ELSE Now

\* an answer of a blocking primitive: its return value and, when that is -1,
\* errno
Ans(n, e) == [n |-> n, errno |-> e]

EINTR == Ans(-1, "EINTR")
EIO == Ans(-1, "EIO")

\* the answers of ::send, ::recv and read asked for n bytes
Answers(n) ==
    IF h.faults < world.faults
    THEN {Ans(n, "none"), Ans(0, "none"), EINTR, EIO}
           \cup (IF Partial < n THEN {Ans(Partial, "none")} ELSE {})
    ELSE {Ans(n, "none")}

\* the history of a run counts the answers that were not "all n bytes"
Fault(hh, ans, n) ==
    IF ans.n = n THEN hh ELSE [hh EXCEPT !.faults = @ + 1]

\* The measurements of a single caller (maxXfer, within, exact) are kept while
\* one thread alone has used the limiter, and dropped when a second one calls.
Solo(hh, t) ==
    IF hh.solo /\ \E u \in Threads \ {t} : th[u].calls > 0
    THEN [hh EXCEPT !.solo = FALSE, !.maxXfer = 0, !.within = FALSE,
                    !.exact = FALSE]
    ELSE hh

\* the thread is suspended, so time passing is not scheduling delay
Suspended(t) ==
    \/ th[t].pc \in {"send_io", "send_raw", "recv_io", "recv_raw",
                     "sf_read", "sf_raw"}
    \/ th[t].pc \in {"send_sleep", "recv_sleep"} /\ time_less(Now, th[t].wake)
    \/ th[t].pc = "idle" /\ th[t].calls = 0

(***************************************************************************)
(* The clock                                                               *)
(***************************************************************************)
Tick ==
    /\ clock < MaxClock
    /\ clock' = clock + 1
    /\ h' = [h EXCEPT !.exact = @ /\ \A t \in Threads : Suspended(t)]
    /\ UNCHANGED <<config, sched, mutex_, th>>

(***************************************************************************)
(* RateLimiter::send                                                       *)
(***************************************************************************)
\* the value send returns to its caller: the application, or sendfile at
\* lines 217-220
ReturnFromSend(r, v) ==
    IF r.op = "sendfile"
    THEN IF size_t_lt0(v)
         THEN [Locals0 EXCEPT !.calls = r.calls, !.ret = v]
         ELSE [r EXCEPT !.pc = "sf_loop", !.flen = r.flen + r.rnum,
                        !.len = 0, !.total = 0, !.rnum = 0]
    ELSE [Locals0 EXCEPT !.calls = r.calls, !.ret = v]

\* lines 64-79: the loop test, the chunk, its ideal duration, the clock
SendLoop(r) ==
    IF r.total > 0
    THEN LET size == ChunkSize(r.total)
         IN  [r EXCEPT !.pc = "send_lock", !.size = size,
                       !.duration = Duration(size), !.now = Now, !.my = Zero]
    ELSE ReturnFromSend(r, r.len)

\* lines 58-63: entry of send(s, buf, len, flags)
EnterSend_clamped(r, len) ==
    IF rate_ = 0
    THEN [r EXCEPT !.pc = "send_raw", !.len = ChunkSize(len)]
    ELSE SendLoop([r EXCEPT !.len = len, !.total = len])

EnterSend(r, len) ==
    IF rate_ = 0
    THEN [r EXCEPT !.pc = "send_raw", !.len = len]
    ELSE SendLoop([r EXCEPT !.len = len, !.total = len])

\* Threads are interchangeable: the first call is t1's.
MayCall(t) ==
    /\ t \in world.live
    /\ th[t].pc = "idle"
    /\ th[t].calls < MaxCalls
    /\ t = "t1" \/ th["t1"].calls > 0

CallSend(t, len) ==
    /\ MayCall(t)
    /\ th[t].pc = "idle"
    /\ th[t].calls < MaxCalls
    /\ Set(t, EnterSend([Locals0 EXCEPT !.op = "send",
                                        !.calls = th[t].calls + 1], len))
    /\ h' = Solo(HCall(t, [Call0 EXCEPT !.op = "send", !.arg = len]), t)
    /\ UNCHANGED <<config, sched, mutex_, clock>>

\* line 60: return ::send(s, buf, len, flags), whatever the transport answers
SendRaw(t, ans) ==
    /\ th[t].pc = "send_raw"
    /\ Set(t, ReturnFromSend(th[t], ans.n))
    /\ h' = Fault(HCall(t, [h.call[t] EXCEPT !.prims = Count(@),
                                             !.plen = th[t].len,
                                             !.pres = ans.n]), ans, th[t].len)
    /\ UNCHANGED <<config, sched, mutex_, clock>>

\* line 82: pthread_mutex_lock
SendLock_nowait(t) ==
    /\ th[t].pc = "send_lock"
    /\ mutex_' = t
    /\ Set(t, [th[t] EXCEPT !.pc = "send_crit"])
    /\ h' = HCall(t, [h.call[t] EXCEPT !.locked = TRUE])
    /\ UNCHANGED <<config, sched, clock>>

SendLock(t) ==
    /\ th[t].pc = "send_lock"
    /\ mutex_ = "free"
    /\ mutex_' = t
    /\ Set(t, [th[t] EXCEPT !.pc = "send_crit"])
    /\ h' = HCall(t, [h.call[t] EXCEPT !.locked = TRUE])
    /\ UNCHANGED <<config, sched, clock>>

\* lines 85-105: the critical section, the unlock, and the call of nanosleep
SendReserve(t) ==
    /\ th[t].pc = "send_crit"
    /\ LET dd  == DrawDown(th[t].duration, sendextra_)
           rs  == Reserve(send_, th[t].now, dd[1])
           my  == time_add(rs[2], dd[1])
       IN  /\ sendextra_' = dd[2]
           /\ send_' = rs[1]
           /\ mutex_' = Unlock(t)
           /\ Set(t, [th[t] EXCEPT !.pc = "send_sleep", !.duration = dd[1],
                                   !.my = my, !.wake = WakeTime(my)])
           /\ h' = [HCall(t, [h.call[t] EXCEPT !.slept = TRUE]) EXCEPT
                       !.started = TRUE,
                       !.first = IF h.started THEN @ ELSE th[t].now]
    /\ UNCHANGED <<config, recv_, recvextra_, clock>>

\* sendall has returned v (lines 109-112): the result, then the clock
AfterSendall(r, v) ==
    IF size_t_lt0(v)
    THEN ReturnFromSend(r, v)
    ELSE [r EXCEPT !.pc = "send_book", !.result = v, !.t2 = Now,
                   !.now = Zero, !.my = Zero, !.wake = Zero, !.duration = 0]

\* what the history keeps of a transfer that ended now
TransferEnded(r, hh) ==
    LET e == time_diff2(Now, r.t1)
    IN  IF hh.solo
        THEN [hh EXCEPT !.maxXfer = IF e > @ THEN e ELSE @,
                        !.within = @ /\ e <= Duration(r.size)]
        ELSE hh

\* line 105 returns; line 108 reads the clock; line 109 enters sendall, which
\* returns len at once when there is nothing to send (line 235)
SendWake(t) ==
    /\ th[t].pc = "send_sleep"
    /\ ~time_less(Now, th[t].wake)
    /\ LET r  == [th[t] EXCEPT !.t1 = Now, !.nleft = th[t].size]
           hh == [HCall(t, [h.call[t] EXCEPT !.handed = @ + th[t].size]) EXCEPT
                     !.begun = @ + th[t].size,
                     !.exact = @ /\ Now = th[t].wake]
       IN  IF th[t].size = 0
           THEN /\ Set(t, AfterSendall(r, th[t].size))
                /\ h' = TransferEnded(r, hh)
           ELSE /\ Set(t, [r EXCEPT !.pc = "send_io"])
                /\ h' = hh
    /\ UNCHANGED <<config, sched, mutex_, clock>>

(***************************************************************************)
(* RateLimiter::sendall: one ::send of the loop at lines 235-247           *)
(***************************************************************************)
\* line 240: return error, where int error = 0
sendall_error == 0

\* line 248: return len
sendall_len(len, nleft) == len

SendallStep(t, ans) ==
    /\ th[t].pc = "send_io"
    /\ LET r  == th[t]
           c  == h.call[t]
           hf == Fault(h, ans, r.nleft)
       IN  CASE ans.n < 0 /\ ans.errno = "EINTR" ->
                  /\ UNCHANGED th
                  /\ h' = hf
             [] ans.n < 0 /\ ans.errno # "EINTR" ->
                  /\ Set(t, AfterSendall(r, sendall_error))
                  /\ h' = TransferEnded(r, [hf EXCEPT !.call[t].fatal = TRUE])
             [] ans.n = 0 ->
                  /\ Set(t, AfterSendall(r, sendall_len(r.size, r.nleft)))
                  /\ h' = TransferEnded(r, [hf EXCEPT !.call[t].short = TRUE])
             [] ans.n > 0 ->
                  LET hh == [hf EXCEPT !.call[t].acc = @ + ans.n]
                  IN  IF r.nleft - ans.n = 0
                      THEN /\ Set(t, AfterSendall([r EXCEPT !.nleft = 0],
                                                  sendall_len(r.size, 0)))
                           /\ h' = TransferEnded(r, hh)
                      ELSE /\ Set(t, [r EXCEPT !.nleft = r.nleft - ans.n])
                           /\ h' = hh
    /\ UNCHANGED <<config, sched, mutex_, clock>>

\* lines 115-120, then the loop again: lock, book the measured duration as
\* credit, unlock, advance
SendBook(t) ==
    /\ th[t].pc = "send_book"
    /\ mutex_ = "free"
    /\ sendextra_' = sendextra_ + time_diff2(th[t].t2, th[t].t1)
    /\ Set(t, SendLoop([th[t] EXCEPT !.total = th[t].total - th[t].size,
                                     !.size = 0, !.t1 = Zero, !.t2 = Zero,
                                     !.result = 0]))
    /\ h' = HCall(t, [h.call[t] EXCEPT !.over =
                 /\ th[t].total - th[t].size > 0
                 /\ time_diff2(th[t].t2, th[t].t1) >=
                       Duration(ChunkSize(th[t].total - th[t].size))])
    /\ UNCHANGED <<config, send_, recv_, recvextra_, mutex_, clock>>

(***************************************************************************)
(* RateLimiter::recv                                                       *)
(***************************************************************************)
\* lines 135-146: entry of recv(s, buf, len, flags)
EnterRecv(r, len) ==
    IF rate_ = 0
    THEN [r EXCEPT !.pc = "recv_raw", !.len = len]
    ELSE [r EXCEPT !.pc = "recv_io", !.len = len, !.size = ChunkSize(len),
                   !.t1 = Now]

CallRecv(t, len) ==
    /\ MayCall(t)
    /\ Set(t, EnterRecv([Locals0 EXCEPT !.op = "recv",
                                        !.calls = th[t].calls + 1], len))
    /\ h' = Solo(HCall(t, [Call0 EXCEPT !.op = "recv", !.arg = len]), t)
    /\ UNCHANGED <<config, sched, mutex_, clock>>

\* the value recv returns to the application
ReturnFromRecv_zero(r, v) ==
    [Locals0 EXCEPT !.calls = r.calls, !.ret = IF v < 0 THEN 0 ELSE v]

ReturnFromRecv(r, v) == [Locals0 EXCEPT !.calls = r.calls, !.ret = v]

\* line 137: return ::recv(s, buf, len, flags)
RecvRaw(t, ans) ==
    /\ th[t].pc = "recv_raw"
    /\ Set(t, ReturnFromRecv(th[t], ans.n))
    /\ h' = Fault(HCall(t, [h.call[t] EXCEPT !.prims = Count(@),
                                             !.plen = th[t].len,
                                             !.pres = ans.n]), ans, th[t].len)
    /\ UNCHANGED <<config, sched, mutex_, clock>>

\* lines 147-160: ::recv answers; a failed or empty receive is returned as it
\* is, anything else is timed and its ideal duration computed
RecvIo(t, ans) ==
    /\ th[t].pc = "recv_io"
    /\ IF ans.n <= 0
       THEN Set(t, ReturnFromRecv(th[t], ans.n))
       ELSE Set(t, [th[t] EXCEPT !.pc = "recv_lock", !.result = ans.n,
                                 !.t2 = Now, !.duration = Duration(ans.n),
                                 !.now = Now, !.my = Zero])
    /\ h' = Fault(HCall(t, [h.call[t] EXCEPT !.prims = Count(@),
                                             !.plen = th[t].size,
                                             !.pres = ans.n]), ans, th[t].size)
    /\ UNCHANGED <<config, sched, mutex_, clock>>

\* line 163: pthread_mutex_lock
RecvLock(t) ==
    /\ th[t].pc = "recv_lock"
    /\ mutex_ = "free"
    /\ mutex_' = t
    /\ Set(t, [th[t] EXCEPT !.pc = "recv_crit"])
    /\ h' = HCall(t, [h.call[t] EXCEPT !.locked = TRUE])
    /\ UNCHANGED <<config, sched, clock>>

\* lines 166-187: the critical section, the unlock, and the call of nanosleep
RecvReserve_unbooked(t) ==
    /\ th[t].pc = "recv_crit"
    /\ LET dd  == DrawDown(th[t].duration, recvextra_)
           rs  == Reserve(recv_, th[t].now, dd[1])
           my  == time_add(rs[2], dd[1])
       IN  /\ recvextra_' = dd[2]
           /\ recv_' = rs[1]
           /\ mutex_' = Unlock(t)
           /\ Set(t, [th[t] EXCEPT !.pc = "recv_sleep", !.duration = dd[1],
                                   !.my = my, !.wake = WakeTime(my),
                                   !.t1 = Zero, !.t2 = Zero])
           /\ h' = HCall(t, [h.call[t] EXCEPT !.slept = TRUE])
    /\ UNCHANGED <<config, send_, sendextra_, clock>>

RecvReserve(t) ==
    /\ th[t].pc = "recv_crit"
    /\ LET booked == recvextra_ + time_diff2(th[t].t2, th[t].t1)
           dd  == DrawDown(th[t].duration, booked)
           rs  == Reserve(recv_, th[t].now, dd[1])
           my  == time_add(rs[2], dd[1])
       IN  /\ recvextra_' = dd[2]
           /\ recv_' = rs[1]
           /\ mutex_' = Unlock(t)
           /\ Set(t, [th[t] EXCEPT !.pc = "recv_sleep", !.duration = dd[1],
                                   !.my = my, !.wake = WakeTime(my),
                                   !.t1 = Zero, !.t2 = Zero])
           /\ h' = HCall(t, [h.call[t] EXCEPT !.slept = TRUE])
    /\ UNCHANGED <<config, send_, sendextra_, clock>>

\* lines 187-189: nanosleep returns; return result
RecvWake(t) ==
    /\ th[t].pc = "recv_sleep"
    /\ ~time_less(Now, th[t].wake)
    /\ Set(t, ReturnFromRecv(th[t], th[t].result))
    /\ UNCHANGED <<config, sched, mutex_, clock, h>>

(***************************************************************************)
(* RateLimiter::sendfile                                                   *)
(***************************************************************************)
\* the value sendfile returns to the application
ReturnFromSendfile(r, v) == [Locals0 EXCEPT !.calls = r.calls, !.ret = v]

\* line 202: the loop test; line 204 enters read, line 222 returns count
SendfileLoop(r) ==
    IF r.flen < r.count
    THEN [r EXCEPT !.pc = "sf_read"]
    ELSE ReturnFromSendfile(r, r.count)

\* lines 198-201: entry of sendfile(sock, fd, offset, count)
EnterSendfile(r, count, avail) ==
    IF rate_ = 0
    THEN [r EXCEPT !.pc = "sf_raw", !.count = count, !.src = avail]
    ELSE SendfileLoop([r EXCEPT !.count = count, !.src = avail, !.flen = 0])

CallSendfile(t, count, avail) ==
    /\ MayCall(t)
    /\ Set(t, EnterSendfile([Locals0 EXCEPT !.op = "sendfile",
                                            !.calls = th[t].calls + 1],
                            count, avail))
    /\ h' = Solo(HCall(t, [Call0 EXCEPT !.op = "sendfile", !.arg = count,
                                       !.avail = avail]), t)
    /\ UNCHANGED <<config, sched, mutex_, clock>>

\* line 199: return ::sendfile(sock, fd, offset, count)
SendfileRaw(t, ans) ==
    /\ th[t].pc = "sf_raw"
    /\ Set(t, ReturnFromSendfile(th[t], ans.n))
    /\ h' = Fault(HCall(t, [h.call[t] EXCEPT !.prims = Count(@),
                                             !.plen = th[t].count,
                                             !.pres = ans.n]), ans, th[t].count)
    /\ UNCHANGED <<config, sched, mutex_, clock>>

\* the answers of read(fd, buf, FileBlock) on a file with avail bytes left
ReadAnswers(avail) ==
    LET n == IF avail < FileBlock THEN avail ELSE FileBlock
    IN  {Ans(n, "none")} \cup
        (IF h.faults < world.faults
         THEN {EINTR, EIO} \cup (IF Partial < n THEN {Ans(Partial, "none")} ELSE {})
         ELSE {})

\* lines 215-216: no more than what is left of count
Clip_none(rnum, left) == rnum

Clip(rnum, left) == IF size_t_gt(rnum, left) THEN left ELSE rnum

\* lines 204-217: read answers; rnum is a size_t, so the tests on a failed read
\* are made on the bit pattern of -1
SendfileRead(t, ans) ==
    /\ th[t].pc = "sf_read"
    /\ LET r    == th[t]
           rnum == ans.n
           hf   == IF ans.n < 0
                   THEN [h EXCEPT !.faults = @ + 1, !.call[t].rerr = ans.errno]
                   ELSE IF ans.n = Partial /\ Partial < r.src
                        THEN [h EXCEPT !.faults = @ + 1] ELSE h
       IN  IF size_t_lt0(rnum)
           THEN IF ans.errno = "EINTR"
                THEN /\ Set(t, SendfileLoop(r))
                     /\ h' = hf
                ELSE /\ Set(t, ReturnFromSendfile(r, rnum))
                     /\ h' = hf
           ELSE IF rnum = 0
                THEN /\ Set(t, ReturnFromSendfile(r, r.flen))
                     /\ h' = hf
                ELSE LET clip == Clip(rnum, r.count - r.flen)
                     IN  /\ Set(t, SendLoop([r EXCEPT
                                    !.rnum = clip, !.len = clip, !.total = clip,
                                    !.src = IF rnum > 0 THEN r.src - rnum ELSE r.src]))
                         /\ h' = [hf EXCEPT !.call[t].passed = @ + clip,
                                            !.call[t].rfail = @ \/ rnum < 0]
    /\ UNCHANGED <<config, sched, mutex_, clock>>

\* line 217 returns into the loop of sendfile: lines 218-221, then 202
SendfileNext(t) ==
    /\ th[t].pc = "sf_loop"
    /\ Set(t, SendfileLoop(th[t]))
    /\ UNCHANGED <<config, sched, mutex_, clock, h>>

(***************************************************************************)
(* Specification                                                           *)
(***************************************************************************)
Next ==
    \/ Tick
    \/ \E t \in Threads :
          \/ \E len \in world.lens : CallSend(t, len)
          \/ \E ans \in Answers(th[t].len) : SendRaw(t, ans)
          \/ SendLock(t)
          \/ SendReserve(t)
          \/ SendWake(t)
          \/ \E ans \in Answers(th[t].nleft) : SendallStep(t, ans)
          \/ SendBook(t)
          \/ \E len \in world.lens : CallRecv(t, len)
          \/ \E ans \in Answers(th[t].len) : RecvRaw(t, ans)
          \/ \E ans \in Answers(th[t].size) : RecvIo(t, ans)
          \/ RecvLock(t)
          \/ RecvReserve(t)
          \/ RecvWake(t)
          \/ \E count \in world.counts, avail \in world.avails :
                CallSendfile(t, count, avail)
          \/ \E ans \in Answers(th[t].count) : SendfileRaw(t, ans)
          \/ \E ans \in ReadAnswers(th[t].src) : SendfileRead(t, ans)
          \/ SendfileNext(t)

Spec == Init /\ [][Next]_vars


(***************************************************************************)
(* Properties                                                              *)
(***************************************************************************)
Paced == rate_ > 0
SendPcs == {"send_lock", "send_crit", "send_sleep", "send_io", "send_book"}
Returned(t, op) == th[t].pc = "idle" /\ h.call[t].op = op

\* C1: in each direction the next eligible time never moves backwards: no
\* step of any thread, in any interleaving, leaves send_ or recv_ earlier
\* than it was.
C1_NextEligibleNonDecreasing ==
    [][~time_less(send_', send_) /\ ~time_less(recv_', recv_)]_vars

\* two threads have reserved send slots, the later one behind a backlog:
\* its wait is longer than its own slot
C1_Witness ==
    \E t \in Threads : \E u \in Threads \ {t} :
       /\ h.call[t].slept /\ h.call[u].slept
       /\ th[t].pc = "send_sleep"
       /\ time_less(time_add(Zero, th[t].duration), th[t].my)
       /\ time_less(TimeAt(0), send_)

\* C2: the credit of each direction is never negative, from construction on,
\* and neither is the credit-adjusted duration a chunk advances the schedule
\* and sleeps by.
C2_CreditNonNegative ==
    /\ sendextra_ >= 0
    /\ recvextra_ >= 0
    /\ \A t \in Threads : th[t].duration >= 0

\* C3: with a rate set, a chunk handed to the transfer is min(remaining, B):
\* no send chunk and no recv request exceeds B, a send chunk below B is the
\* last one, and the chunks of one send(L) add up to L.
C3_ChunkSizes ==
    Paced =>
      \A t \in Threads :
         /\ th[t].pc \in SendPcs =>
               /\ th[t].size <= maxburst_
               /\ th[t].size = Min(th[t].total, maxburst_)
               /\ th[t].size < maxburst_ => th[t].size = th[t].total
         /\ th[t].pc = "recv_io" =>
               /\ th[t].size <= maxburst_
               /\ th[t].size = Min(th[t].len, maxburst_)
         /\ h.call[t].op = "send" /\ th[t].pc \in {"send_lock", "send_crit", "send_sleep"} =>
               h.call[t].handed + th[t].total = h.call[t].arg
         /\ h.call[t].op = "send" /\ th[t].pc \in {"send_io", "send_book"} =>
               h.call[t].handed + th[t].total - th[t].size = h.call[t].arg
         /\ Returned(t, "send") => h.call[t].handed = h.call[t].arg

\* a send of more than two bursts has returned: full chunks and a smaller
\* last one were handed over
C3_Witness ==
    /\ Paced
    /\ maxburst_ = 500
    /\ Returned("t1", "send")
    /\ h.call["t1"].arg = 750
    /\ h.call["t1"].handed = 750

\* the last transfer of a send by the only caller has just ended, and the
\* transport accepted every chunk of the call
LastTransferEnded(t) ==
    /\ h.solo /\ Paced
    /\ h.call[t].op = "send"
    /\ ~h.call[t].fatal /\ ~h.call[t].short
    /\ th[t].pc = "send_book"
    /\ th[t].total = th[t].size
    /\ h.begun = h.call[t].arg

\* C4: a single caller sends L bytes and no transfer takes longer than its
\* chunk's ideal duration; then the time from the first reservation to the
\* end of the last transfer is at least L*8/R, and, when the scheduler adds
\* no delay of its own, at most that plus the longest transfer.
C4_SingleCallerPace ==
    \A t \in Threads :
       LastTransferEnded(t) /\ h.within =>
          LET elapsed == time_diff2(th[t].t2, h.first)
              ideal   == Duration(h.call[t].arg)
          IN  /\ elapsed >= ideal
              /\ h.exact => elapsed <= ideal + h.maxXfer

\* the same, for a limiter whose construction happened to leave the send
\* credit at 0
C4_FromZeroCredit ==
    h.credit0[1] = 0 => C4_SingleCallerPace

\* 1000 bytes in two chunks of 500 at 8 kbit/s took exactly one second
C4_Scenario ==
    /\ LastTransferEnded("t1") /\ h.within /\ h.exact
    /\ h.credit0[1] = 0
    /\ rate_ = 8000 /\ maxburst_ = 500 /\ h.call["t1"].arg = 1000
    /\ time_diff2(th["t1"].t2, h.first) = DurPerSec

\* the threads that have called send
Senders == {t \in Threads : h.call[t].op = "send"}

\* C5: two or more threads sending through one limiter share one budget: at
\* any time T after the first reservation the bytes whose transfer has begun
\* are at most R*T/8 plus one maximum chunk per caller.
C5_SharedBudget ==
    (Paced /\ h.started /\ Cardinality(Senders) >= 2) =>
       Duration(h.begun) <=
          time_diff2(Now, h.first) + Cardinality(Senders) * Duration(maxburst_)

\* C6: a thread that sleeps or waits in a transfer does not own the mutex;
\* the mutex is owned only inside a critical section.
C6_NoLockAcrossSleepOrIo ==
    \A t \in Threads :
       /\ th[t].pc \in {"send_sleep", "recv_sleep", "send_io", "recv_io",
                        "send_raw", "recv_raw", "sf_read", "sf_raw"}
             => mutex_ # t
       /\ mutex_ = t => th[t].pc \in {"send_crit", "recv_crit"}

\* one thread is in its critical section while another sleeps and has yet
\* to wake
C6_Witness ==
    \E t \in Threads : \E u \in Threads \ {t} :
       /\ mutex_ = t
       /\ th[t].pc \in {"send_crit", "recv_crit"}
       /\ th[u].pc \in {"send_sleep", "recv_sleep"}
       /\ time_less(Now, th[u].wake)

\* C7: with a rate set, once ::send has failed with an error other than EINTR
\* the call transfers no later chunk and returns -1, never a byte count; a
\* sendfile whose paced send failed returns -1 as well.
C7_FatalSendAborts ==
    \A t \in Threads :
       (Paced /\ h.call[t].fatal) =>
          /\ th[t].pc \in {"send_book", "sf_loop", "idle"}
          /\ th[t].pc = "idle" => th[t].ret = -1

\* C8: with a rate set, when ::send answers 0 before the chunk is accepted,
\* sendall returns the bytes of the chunk that were accepted, and send
\* returns the bytes the transport accepted in the whole call.
C8_ShortSendReported ==
    \A t \in Threads :
       (Paced /\ h.call[t].op = "send" /\ h.call[t].short /\ ~h.call[t].fatal) =>
          /\ (th[t].pc = "send_book" /\ th[t].nleft > 0) =>
                th[t].result = th[t].size - th[t].nleft
          /\ th[t].pc = "idle" => th[t].ret = h.call[t].acc

\* C9: with rate 0 a call is one call of ::send, ::recv or ::sendfile with
\* the caller's length, returns what that call returned, takes no lock, does
\* not sleep, and leaves send_, recv_, sendextra_ and recvextra_ as
\* construction left them.
C9_UnlimitedPassThrough ==
    rate_ = 0 =>
       /\ sched = h.sched0
       /\ mutex_ = "free"
       /\ \A t \in Threads :
             /\ th[t].pc \in {"idle", "send_raw", "recv_raw", "sf_raw"}
             /\ ~h.call[t].slept
             /\ ~h.call[t].locked
             /\ th[t].pc = "send_raw" => th[t].len = h.call[t].arg
             /\ th[t].pc = "recv_raw" => th[t].len = h.call[t].arg
             /\ th[t].pc = "sf_raw" => th[t].count = h.call[t].arg
             /\ th[t].pc # "idle" => h.call[t].prims = 0
             /\ (th[t].pc = "idle" /\ h.call[t].op # "none") =>
                   /\ h.call[t].prims = 1
                   /\ h.call[t].plen = h.call[t].arg
                   /\ th[t].ret = h.call[t].pres

\* rate 0 and B = 500: a send of 1000 bytes went out as one ::send of 1000
C9_Witness ==
    /\ rate_ = 0 /\ maxburst_ = 500
    /\ Returned("t1", "send")
    /\ h.call["t1"].arg = 1000
    /\ h.call["t1"].plen = 1000
    /\ th["t1"].ret = 1000

\* no read and no send of the call has failed or come back empty
CleanSendfile(t) ==
    /\ Paced
    /\ h.call[t].op = "sendfile"
    /\ ~h.call[t].fatal /\ ~h.call[t].short /\ ~h.call[t].rfail

\* C10: with a rate set and no failure, sendfile(count) on a file with A
\* bytes left returns min(count, A), has passed exactly that many bytes to
\* send, and passes them in blocks of at most 1024 bytes.
C10_SendfileCount ==
    \A t \in Threads :
       CleanSendfile(t) =>
          /\ th[t].rnum <= FileBlock
          /\ h.call[t].passed <= Min(h.call[t].arg, h.call[t].avail)
          /\ th[t].pc = "idle" =>
                /\ th[t].ret = Min(h.call[t].arg, h.call[t].avail)
                /\ h.call[t].passed = th[t].ret

\* the file ended first: 1200 of the 1500 bytes asked for were sent
C10_Witness ==
    /\ CleanSendfile("t1")
    /\ th["t1"].pc = "idle"
    /\ h.call["t1"].arg = 1500 /\ h.call["t1"].avail = 1200
    /\ th["t1"].ret = 1200
    /\ h.call["t1"].passed = 1200

\* C11: with a rate set, a read that fails with EINTR is tried again with
\* nothing sent and nothing counted, and a read that fails otherwise makes
\* sendfile return -1 with nothing more passed to send: no byte count taken
\* from a failed read ever reaches send.
C11_ReadFailures ==
    \A t \in Threads :
       (Paced /\ h.call[t].op = "sendfile") =>
          /\ ~h.call[t].rfail
          /\ h.call[t].rerr = "EINTR" =>
                h.call[t].passed <= Min(h.call[t].arg, h.call[t].avail)
          /\ h.call[t].rerr = "EIO" =>
                /\ th[t].pc = "idle"
                /\ th[t].ret = -1

\* C12: after construction by any of the three constructors, and until a call
\* is made, send_ and recv_ hold the clock reading of construction and
\* sendextra_ and recvextra_ are 0.
C12_ConstructedSchedules ==
    (\A t \in Threads : th[t].calls = 0) =>
       /\ send_ = TimeAt(0)
       /\ recv_ = TimeAt(0)
       /\ sendextra_ = 0
       /\ recvextra_ = 0

\* C13: a single caller's send: when the transfer of a chunk took at least
\* the ideal duration of the chunk after it, that next chunk is dispatched
\* with no sleep: its credit-adjusted duration is 0 and its wait offset is 0.
C13_OverrunSkipsSleep ==
    \A t \in Threads :
       (Paced /\ h.solo /\ th[t].pc = "send_sleep" /\ h.call[t].over) =>
          /\ th[t].duration = 0
          /\ th[t].my = Zero

\* 1000 bytes as 2 x 500 at 8 kbit/s: the first transfer took a second,
\* twice its ideal duration, and the second chunk does not sleep
C13_Witness ==
    /\ Paced /\ h.solo /\ th["t1"].pc = "send_sleep" /\ h.call["t1"].over
    /\ maxburst_ = 500 /\ h.call["t1"].arg = 1000 /\ h.call["t1"].handed = 500
    /\ sendextra_ = DurPerSec \div 2
    /\ th["t1"].my = Zero

InCrit(t) == th[t].pc \in {"send_crit", "recv_crit"}

\* C14: send_, sendextra_, recv_ and recvextra_ are written only by a thread
\* that holds the mutex, one thread at most holds it, and no other thread is
\* inside a critical section when a reservation or a credit booking is made.
C14_WritesUnderMutex ==
    [][sched' # sched =>
         \E t \in Threads :
            /\ th'[t] # th[t]
            /\ \A u \in Threads \ {t} : th'[u] = th[u] /\ ~InCrit(u)
            /\ \/ InCrit(t) /\ mutex_ = t /\ mutex_' = "free"
               \/ th[t].pc = "send_book" /\ mutex_ = "free" /\ mutex_' = "free"]_vars

\* one thread makes its reservation while the other, which has reserved
\* before, waits for the mutex
C14_Witness ==
    \E t \in Threads : \E u \in Threads \ {t} :
       /\ InCrit(t) /\ mutex_ = t
       /\ th[u].pc \in {"send_lock", "send_book", "recv_lock"}
       /\ h.call[u].slept
       /\ send_ # h.sched0[1]

\* the relation the claim states between d, c and what the step leaves
DrawnDown(d, c, d1, c1) ==
    /\ d1 = Max(d - c, 0)
    /\ c1 = Max(c - d, 0)
    /\ d1 = 0 \/ c1 = 0
    /\ d1 - c1 = d - c

\* C15: the draw-down of a reservation, entered with ideal duration d >= 0
\* and credit c >= 0, leaves d' = max(d - c, 0) and c' = max(c - d, 0): one of
\* them is 0 and d' - c' = d - c.  In recv c is the credit after the measured
\* receive time was added; otherwise send and recv do the same.
C15_DrawDownAlgebra ==
    [][\A t \in Threads :
          /\ (th[t].pc = "send_crit" /\ th'[t].pc = "send_sleep"
                /\ th[t].duration >= 0 /\ sendextra_ >= 0) =>
                DrawnDown(th[t].duration, sendextra_,
                          th'[t].duration, sendextra_')
          /\ (th[t].pc = "recv_crit" /\ th'[t].pc = "recv_sleep"
                /\ th[t].duration >= 0
                /\ recvextra_ + time_diff2(th[t].t2, th[t].t1) >= 0) =>
                DrawnDown(th[t].duration,
                          recvextra_ + time_diff2(th[t].t2, th[t].t1),
                          th'[t].duration, recvextra_')]_vars

\* a send chunk whose ideal duration was smaller than the credit earned by
\* the transfers before it: no delay, and credit left over
C15_Witness ==
    \E t \in Threads :
       /\ th[t].pc = "send_sleep"
       /\ h.credit0[1] = 0
       /\ th[t].size > 0
       /\ th[t].duration = 0
       /\ sendextra_ > 0

\* a timestamp with its nanoseconds carried into [0, nmax)
Norm(ts) == TS(ts.tv_sec + (ts.tv_nsec \div nmax), ts.tv_nsec % nmax)

\* the clock reading of a reservation plus the sleep it computed
Eligible(t) ==
    Norm(TS(th[t].now.tv_sec + th[t].my.tv_sec,
            th[t].now.tv_nsec + th[t].my.tv_nsec))

EligibleAfter(t) ==
    Norm(TS(th'[t].now.tv_sec + th'[t].my.tv_sec,
            th'[t].now.tv_nsec + th'[t].my.tv_nsec))

C17_FailedRecvUntouched ==
    [][\A t \in Threads :
          (Paced /\ th[t].pc = "recv_io" /\ th'[t].pc = "idle") =>
             /\ h'.call[t].pres <= 0
             /\ th'[t].ret = h'.call[t].pres
             /\ h'.call[t].prims = 1
             /\ ~h'.call[t].slept
             /\ ~h'.call[t].locked
             /\ sched' = sched
             /\ mutex_' = mutex_]_vars

\* ::recv failed: the call returned -1 and the schedules are as constructed
C17_Witness ==
    /\ Paced
    /\ Returned("t1", "recv")
    /\ h.call["t1"].pres = -1
    /\ th["t1"].ret = -1
    /\ ~h.call["t1"].slept
    /\ sched = h.sched0

\* the later of two timestamps
Later(a, b) == IF time_less(Norm(a), Norm(b)) THEN Norm(b) ELSE Norm(a)

\* C18: a paced recv that received n > 0 bytes in measured time e, entered
\* with credit c, adds e to the credit first and paces the n bytes received,
\* not the length asked for: recv_ moves to max(recv_, now) plus
\* max(n*8/R - (c + e), 0), the credit left is max((c + e) - n*8/R, 0), one
\* ::recv was made and n is returned.
C18_RecvBooking ==
    [][\A t \in Threads :
          /\ (th[t].pc = "recv_crit" /\ th'[t].pc = "recv_sleep") =>
                LET n == h.call[t].pres
                    e == time_diff2(th[t].t2, th[t].t1)
                    c == recvextra_
                    d == Duration(n)
                IN  /\ n > 0 /\ n = th[t].result
                    /\ Norm(recv_') =
                          Norm(time_add(Later(recv_, th[t].now),
                                        Max(d - (c + e), 0)))
                    /\ recvextra_' = Max((c + e) - d, 0)
          /\ (th[t].pc = "recv_sleep" /\ th'[t].pc = "idle") =>
                /\ th'[t].ret = h.call[t].pres
                /\ h.call[t].prims = 1]_vars

\* 250 bytes of the 500 asked for arrived: 250 is returned and a quarter of
\* a second, not half a second, was added to recv_
C18_Witness ==
    /\ Paced /\ rate_ = 8000 /\ maxburst_ = 500
    /\ Returned("t1", "recv")
    /\ h.credit0[2] = 0 /\ h.sched0[2] = TimeAt(0)
    /\ h.call["t1"].plen = 500
    /\ h.call["t1"].pres = Partial
    /\ th["t1"].ret = Partial
    /\ recvextra_ = 0
    /\ recv_ = time_add(TimeAt(0), Duration(Partial))

\* C19: a paced send of L bytes terminates for every B, B = 0 included: each
\* pass of its loop schedules at least one byte, so what is left to send goes
\* down with every pass, and when the call returns it returns L with the
\* mutex not held by the caller.
C19_SendTerminates ==
    [][\A t \in Threads :
          (Paced /\ h.call[t].op = "send"
             /\ th[t].pc = "send_book" /\ th'[t].pc # "send_book") =>
             /\ th[t].size >= 1
             /\ th[t].total - th[t].size < th[t].total
             /\ mutex_' # t
             /\ th'[t].pc = "idle" => th'[t].ret = h.call[t].arg]_vars

\* seconds >= 0 and nanoseconds in [0, nmax)
Normal(ts) == ts.tv_sec >= 0 /\ ts.tv_nsec >= 0 /\ ts.tv_nsec < nmax

\* C20: a reservation entered with a normalised schedule timestamp, a
\* normalised clock reading and a duration >= 0 leaves send_ (recv_)
\* normalised and asks nanosleep for a normalised interval, also when the
\* nanoseconds carry or borrow.
C20_TimestampsNormalised ==
    [][\A t \in Threads :
          /\ (th[t].pc = "send_crit" /\ th'[t].pc = "send_sleep"
                /\ Normal(send_) /\ Normal(th[t].now)
                /\ th'[t].duration >= 0) =>
                Normal(send_') /\ Normal(th'[t].my)
          /\ (th[t].pc = "recv_crit" /\ th'[t].pc = "recv_sleep"
                /\ Normal(recv_) /\ Normal(th[t].now)
                /\ th'[t].duration >= 0) =>
                Normal(recv_') /\ Normal(th'[t].my)]_vars

\* a backlogged reservation at half past: the wait offset borrowed a second
\* (1.0 - 0.5) and the sleep carried one (0.5 + 0.5)
C20_Witness ==
    \E t \in Threads :
       /\ th[t].pc = "send_sleep"
       /\ th[t].now = TS(0, nmax \div 2)
       /\ th[t].duration = DurPerSec \div 2
       /\ th[t].my = TS(1, 0)
       /\ send_ = TS(1, nmax \div 2)

=============================================================================
